---- MODULE Spec2Model ----
(***************************************************************************)
(* MD_Gamepad (src/src/MD_Gamepad.h): a polled sampler for seven digital   *)
(* switches and two analog joystick axes, with one read interval gating    *)
(* the digital and the analog reads through two separate timestamps.       *)
(*                                                                         *)
(* One action of the model is one call of a public method of the global    *)
(* instance `gamepad`, or an advance of the millisecond clock between      *)
(* calls.  A call is taken at a single clock value.  The levels of the     *)
(* pins and the ADC samples are inputs of the call that reads them.        *)
(*                                                                         *)
(* begin() is called once, in setup(), before any other method, as its     *)
(* documentation asks; its pinMode() calls leave no state in the object.   *)
(*                                                                         *)
(* TLC's integers are 32 bit signed, so a uint32_t is kept as the pair of  *)
(* its 16 bit halves and its arithmetic is done on the halves; the         *)
(* unwrapped time carries the number of wraps in front of them.            *)
(***************************************************************************)
EXTENDS Integers, Sequences, FiniteSets, TLC

VARIABLES
  begun,             \* begin() has run (setup() is over)
  now,               \* milliseconds since power-up, unwrapped: <<wraps, high, low>>
  ticks,             \* clock advances taken so far
  timeLastDigital,   \* _timeLastDigital
  timeLastAnalog,    \* _timeLastAnalog
  timeBetweenReads,  \* _timeBetweenReads
  deadband,          \* _deadband
  offsetX,           \* _offsetX
  offsetY,           \* _offsetY
  valueX,            \* _valueX
  valueY,            \* _valueY
  pinTable,          \* _pinDigital
  trueLastDigital,   \* unwrapped time at which _timeLastDigital was last set
  trueLastAnalog,    \* unwrapped time at which _timeLastAnalog was last set
  call               \* the last call made: method, inputs, result

vars == <<begun, now, ticks, timeLastDigital, timeLastAnalog, timeBetweenReads,
          deadband, offsetX, offsetY, valueX, valueY, pinTable,
          trueLastDigital, trueLastAnalog, call>>

\* The fields of the MD_Gamepad object.
sampler == <<timeLastDigital, timeLastAnalog, timeBetweenReads,
             deadband, offsetX, offsetY, valueX, valueY, pinTable>>

(***************************************************************************)
(* Bounds of the model.                                                    *)
(***************************************************************************)
MaxTicks == 2

(***************************************************************************)
(* Program constants.                                                      *)
(***************************************************************************)
DEFAULT_DELAY == 100
DEFAULT_DB == 5

PIN_A == 2
PIN_B == 3
PIN_C == 4
PIN_D == 5
PIN_E == 6
PIN_F == 7
PIN_K == 8

\* enum switch_t
SW_NONE == 0
SW_A == 1
SW_B == 2
SW_C == 3
SW_D == 4
SW_E == 5
SW_F == 6
SW_K == 7
SW_X == 8
SW_Y == 9

switch_t == SW_NONE..SW_Y

\* Width of uint16_t/int16_t.  A uint32_t (the timestamps, millis()) is the pair
\* <<high, low>> of its two 16 bit halves.
Wrap16 == 65536
AdcMax == 1023

\* The initializer of the pin to switch lookup table, in declaration order.
pinDigital ==
  << [pin |-> PIN_A, sw |-> SW_A], [pin |-> PIN_B, sw |-> SW_B],
     [pin |-> PIN_C, sw |-> SW_C], [pin |-> PIN_D, sw |-> SW_D],
     [pin |-> PIN_E, sw |-> SW_E], [pin |-> PIN_F, sw |-> SW_F],
     [pin |-> PIN_K, sw |-> SW_K] >>

Pins == {pinDigital[i].pin : i \in 1..Len(pinDigital)}

(***************************************************************************)
(* Platform primitives.                                                    *)
(***************************************************************************)
\* millis(): the free running 32 bit millisecond counter.
millis == <<now[2], now[3]>>

\* digitalRead(pin) when the pins in `low` are pulled to ground.
digitalRead(pin, low) == IF pin \in low THEN "LOW" ELSE "HIGH"

\* The 16 bit result of the subtraction kept in an unsigned variable.
ToUint16(u) == u

\* Conversion of a 16 bit pattern to int16_t.
ToInt16(u) == IF u % Wrap16 >= Wrap16 \div 2 THEN (u % Wrap16) - Wrap16 ELSE u % Wrap16

\* The abs() macro.
abs(x) == IF x > 0 THEN x ELSE -x

(***************************************************************************)
(* The gate: millis() - last < _timeBetweenReads in unsigned 32 bit        *)
(* arithmetic.                                                             *)
(***************************************************************************)
\* A difference that stops at 0 instead of wrapping.
Sub32Saturating(a, b) ==
  IF a[1] < b[1] \/ (a[1] = b[1] /\ a[2] < b[2]) THEN <<0, 0>>
  ELSE LET borrow == IF a[2] < b[2] THEN 1 ELSE 0
       IN  <<(a[1] - b[1] - borrow) % Wrap16, (a[2] - b[2]) % Wrap16>>

\* a - b in uint32_t
Sub32(a, b) ==
  LET borrow == IF a[2] < b[2] THEN 1 ELSE 0
  IN  <<(a[1] - b[1] - borrow) % Wrap16, (a[2] - b[2]) % Wrap16>>

\* The comparison with <= for <.
LessEq32(a, d) == a[1] = 0 /\ a[2] <= d

\* The comparison made on the low 16 bits of the elapsed time only.
Less16(a, d) == a[2] < d

\* a < d for a uint32_t a and a uint16_t d
Less32(a, d) == a[1] = 0 /\ a[2] < d

Elapsed(last) == Sub32(millis, last)

GateClosed(last) == Less32(Elapsed(last), timeBetweenReads)

\* The unwrapped time t advanced by the 32 bit amount d.
Advance(t, d) ==
  LET lo == t[3] + d[2]
      hi == t[2] + d[1] + lo \div Wrap16
  IN  <<t[1] + hi \div Wrap16, hi % Wrap16, lo % Wrap16>>

\* A scan that keeps looking after a pin reads LOW, and so reports the last one.
RECURSIVE ScanKeepsGoing(_, _)
ScanKeepsGoing(i, low) ==
  IF i > Len(pinTable) THEN SW_NONE
  ELSE LET rest == ScanKeepsGoing(i + 1, low) IN
       IF rest # SW_NONE THEN rest
       ELSE IF digitalRead(pinTable[i].pin, low) = "LOW" THEN pinTable[i].sw
       ELSE SW_NONE

\* The scan of getSwitch(): the switch of the first pin, from index i on, that reads LOW.
RECURSIVE ScanFrom(_, _)
ScanFrom(i, low) ==
  IF i > Len(pinTable) THEN SW_NONE
  ELSE IF digitalRead(pinTable[i].pin, low) = "LOW" THEN pinTable[i].sw
  ELSE ScanFrom(i + 1, low)

\* analogRead(pin) - offset, stored in an int16_t.
Adjust(raw, offset) == ToInt16((raw - offset) % Wrap16)

\* The deadband with its bound included.
DeadbandInclusive(v) == IF abs(v) <= deadband THEN 0 ELSE v

\* if (abs(v) < _deadband) v = 0;
Deadband(v) == IF abs(v) < deadband THEN 0 ELSE v

(***************************************************************************)
(* The record of a call: the method, the time of the call, the selector,   *)
(* the pins reading LOW and the ADC sample it was given, the value it      *)
(* returned and whether it passed its gate.  `nth` counts the queries made *)
(* so far: 0, 1, or 2 for two and more.                                    *)
(***************************************************************************)
Queries == {"getSwitch", "anyKey", "getJoystickDirection", "getJoystickValue"}

Call(op, sw, pins, raw, ret, fresh) ==
  [op |-> op, at |-> now, sw |-> sw, pins |-> pins, raw |-> raw, ret |-> ret,
   fresh |-> fresh,
   nth |-> IF op \in Queries THEN (IF call.nth = 0 THEN 1 ELSE 2) ELSE call.nth]

NoCall == [op |-> "none", at |-> <<0, 0, 0>>, sw |-> SW_NONE, pins |-> {}, raw |-> 0,
           ret |-> 0, fresh |-> FALSE, nth |-> 0]

\* An instance whose cached values are not cleared (one with automatic storage).
InitUncleared ==
  /\ begun = FALSE
  /\ now = <<0, 0, 0>>
  /\ ticks = 0
  /\ timeLastDigital = <<0, 0>>
  /\ timeLastAnalog = <<0, 0>>
  /\ timeBetweenReads = 0
  /\ deadband = 0
  /\ offsetX = 0
  /\ offsetY = 0
  /\ valueX = -1
  /\ valueY = -1
  /\ pinTable = pinDigital
  /\ trueLastDigital = <<0, 0, 0>>
  /\ trueLastAnalog = <<0, 0, 0>>
  /\ call = NoCall

(***************************************************************************)
(* Init: the zero initialised global instance at power-up.                 *)
(***************************************************************************)
Init ==
  /\ begun = FALSE
  /\ now = <<0, 0, 0>>
  /\ ticks = 0
  /\ timeLastDigital = <<0, 0>>
  /\ timeLastAnalog = <<0, 0>>
  /\ timeBetweenReads = 0
  /\ deadband = 0
  /\ offsetX = 0
  /\ offsetY = 0
  /\ valueX = 0
  /\ valueY = 0
  /\ pinTable = pinDigital
  /\ trueLastDigital = <<0, 0, 0>>
  /\ trueLastAnalog = <<0, 0, 0>>
  /\ call = NoCall

\* The clock advances by d milliseconds between two calls.
Tick(d) ==
  /\ ticks < MaxTicks
  /\ now' = Advance(now, d)
  /\ ticks' = ticks + 1
  /\ UNCHANGED <<begun, sampler, trueLastDigital, trueLastAnalog, call>>

\* begin(), with the two samples analogRead() gives it.
Begin(rawX, rawY) ==
  /\ ~begun
  /\ begun' = TRUE
  /\ timeBetweenReads' = DEFAULT_DELAY
  /\ deadband' = DEFAULT_DB
  /\ offsetX' = rawX
  /\ offsetY' = rawY
  /\ call' = Call("begin", SW_NONE, {}, rawX, 0, TRUE)
  /\ UNCHANGED <<now, ticks, timeLastDigital, timeLastAnalog, valueX, valueY, pinTable,
                 trueLastDigital, trueLastAnalog>>

\* setReadDelay(d)
SetReadDelay(d) ==
  /\ begun
  /\ timeBetweenReads' = d % Wrap16
  /\ call' = Call("setReadDelay", SW_NONE, {}, d, 0, TRUE)
  /\ UNCHANGED <<begun, now, ticks, timeLastDigital, timeLastAnalog, deadband,
                 offsetX, offsetY, valueX, valueY, pinTable, trueLastDigital,
                 trueLastAnalog>>

\* getSwitch() taking the timestamp before it tests the gate.
getSwitchStampsFirst(low) ==
  IF GateClosed(timeLastDigital)
  THEN [ret |-> SW_NONE, time |-> millis, fresh |-> FALSE]
  ELSE [ret |-> ScanFrom(1, low), time |-> millis, fresh |-> TRUE]

\* getSwitch() without its line `_timeLastDigital = millis();`.
getSwitchKeepsStamp(low) ==
  IF GateClosed(timeLastDigital)
  THEN [ret |-> SW_NONE, time |-> timeLastDigital, fresh |-> FALSE]
  ELSE [ret |-> ScanFrom(1, low), time |-> timeLastDigital, fresh |-> TRUE]

\* The body of getSwitch() with the pins in `low` reading LOW: the value it
\* returns and the timestamp it leaves.
getSwitch(low) ==
  IF GateClosed(timeLastDigital)
  THEN [ret |-> SW_NONE, time |-> timeLastDigital, fresh |-> FALSE]
  ELSE [ret |-> ScanFrom(1, low), time |-> millis, fresh |-> TRUE]

\* getSwitch() with one timestamp shared by the digital and the analog samples.
GetSwitchSharedStamp(low) ==
  /\ begun
  /\ LET r == getSwitch(low) IN
       /\ timeLastDigital' = r.time
       /\ timeLastAnalog' = IF r.fresh THEN r.time ELSE timeLastAnalog
       /\ trueLastDigital' = IF r.fresh THEN now ELSE trueLastDigital
       /\ call' = Call("getSwitch", SW_NONE, low, 0, r.ret, r.fresh)
  /\ UNCHANGED <<begun, now, ticks, timeBetweenReads, deadband,
                 offsetX, offsetY, valueX, valueY, pinTable, trueLastAnalog>>

GetSwitch(low) ==
  /\ begun
  /\ LET r == getSwitch(low) IN
       /\ timeLastDigital' = r.time
       /\ trueLastDigital' = IF r.fresh THEN now ELSE trueLastDigital
       /\ call' = Call("getSwitch", SW_NONE, low, 0, r.ret, r.fresh)
  /\ UNCHANGED <<begun, now, ticks, timeLastAnalog, timeBetweenReads, deadband,
                 offsetX, offsetY, valueX, valueY, pinTable, trueLastAnalog>>

\* anyKey() looking at the pins itself, past the gate of getSwitch().
AnyKeyUngated(low) ==
  /\ begun
  /\ call' = Call("anyKey", SW_NONE, low, 0, ScanFrom(1, low) # SW_NONE, TRUE)
  /\ UNCHANGED <<begun, now, ticks, sampler, trueLastDigital, trueLastAnalog>>

\* anyKey() that samples the pins without taking the timestamp.
AnyKeyKeepsStamp(low) ==
  /\ begun
  /\ LET r == getSwitch(low) IN
       /\ trueLastDigital' = IF r.fresh THEN now ELSE trueLastDigital
       /\ call' = Call("anyKey", SW_NONE, low, 0, r.ret # SW_NONE, r.fresh)
  /\ UNCHANGED <<begun, now, ticks, sampler, trueLastAnalog>>

\* anyKey(): getSwitch() != SW_NONE
AnyKey(low) ==
  /\ begun
  /\ LET r == getSwitch(low) IN
       /\ timeLastDigital' = r.time
       /\ trueLastDigital' = IF r.fresh THEN now ELSE trueLastDigital
       /\ call' = Call("anyKey", SW_NONE, low, 0, r.ret # SW_NONE, r.fresh)
  /\ UNCHANGED <<begun, now, ticks, timeLastAnalog, timeBetweenReads, deadband,
                 offsetX, offsetY, valueX, valueY, pinTable, trueLastAnalog>>

\* getJoystickValue() returning _valueX for either axis inside the window.
getJoystickValueLastX(sw, raw) ==
  IF GateClosed(timeLastAnalog)
  THEN [ret |-> valueX,
        time |-> timeLastAnalog, x |-> valueX, y |-> valueY, fresh |-> FALSE]
  ELSE CASE sw = SW_X ->
              LET v == Deadband(Adjust(raw, offsetX)) IN
              [ret |-> v, time |-> millis, x |-> v, y |-> valueY, fresh |-> TRUE]
         [] sw = SW_Y ->
              LET v == Deadband(Adjust(raw, offsetY)) IN
              [ret |-> v, time |-> millis, x |-> valueX, y |-> v, fresh |-> TRUE]
         [] OTHER ->
              [ret |-> 0, time |-> millis, x |-> valueX, y |-> valueY, fresh |-> TRUE]

\* getJoystickValue() taking the timestamp in the SW_Y case only.
getJoystickValueYStamps(sw, raw) ==
  IF GateClosed(timeLastAnalog)
  THEN [ret |-> IF sw = SW_X THEN valueX ELSE valueY,
        time |-> timeLastAnalog, x |-> valueX, y |-> valueY, fresh |-> FALSE]
  ELSE CASE sw = SW_X ->
              LET v == Deadband(Adjust(raw, offsetX)) IN
              [ret |-> v, time |-> timeLastAnalog, x |-> v, y |-> valueY, fresh |-> TRUE]
         [] sw = SW_Y ->
              LET v == Deadband(Adjust(raw, offsetY)) IN
              [ret |-> v, time |-> millis, x |-> valueX, y |-> v, fresh |-> TRUE]
         [] OTHER ->
              [ret |-> 0, time |-> timeLastAnalog, x |-> valueX, y |-> valueY, fresh |-> TRUE]

\* getJoystickValue() taking the timestamp only when it samples an axis.
getJoystickValueAxesStamp(sw, raw) ==
  IF GateClosed(timeLastAnalog)
  THEN [ret |-> IF sw = SW_X THEN valueX ELSE valueY,
        time |-> timeLastAnalog, x |-> valueX, y |-> valueY, fresh |-> FALSE]
  ELSE CASE sw = SW_X ->
              LET v == Deadband(Adjust(raw, offsetX)) IN
              [ret |-> v, time |-> millis, x |-> v, y |-> valueY, fresh |-> TRUE]
         [] sw = SW_Y ->
              LET v == Deadband(Adjust(raw, offsetY)) IN
              [ret |-> v, time |-> millis, x |-> valueX, y |-> v, fresh |-> TRUE]
         [] OTHER ->
              [ret |-> 0, time |-> timeLastAnalog, x |-> valueX, y |-> valueY, fresh |-> TRUE]

\* The body of getJoystickValue(sw) when analogRead() of the axis gives raw:
\* the value it returns and the fields it leaves.
getJoystickValue(sw, raw) ==
  IF GateClosed(timeLastAnalog)
  THEN [ret |-> IF sw = SW_X THEN valueX ELSE valueY,
        time |-> timeLastAnalog, x |-> valueX, y |-> valueY, fresh |-> FALSE]
  ELSE CASE sw = SW_X ->
              LET v == Deadband(Adjust(raw, offsetX)) IN
              [ret |-> v, time |-> millis, x |-> v, y |-> valueY, fresh |-> TRUE]
         [] sw = SW_Y ->
              LET v == Deadband(Adjust(raw, offsetY)) IN
              [ret |-> v, time |-> millis, x |-> valueX, y |-> v, fresh |-> TRUE]
         [] OTHER ->
              [ret |-> 0, time |-> millis, x |-> valueX, y |-> valueY, fresh |-> TRUE]

\* getJoystickValue() that takes every fresh X sample as the new centre.
GetJoystickValueRecenters(sw, raw) ==
  /\ begun
  /\ LET r == getJoystickValue(sw, raw) IN
       /\ timeLastAnalog' = r.time
       /\ valueX' = r.x
       /\ valueY' = r.y
       /\ offsetX' = IF r.fresh /\ sw = SW_X THEN raw ELSE offsetX
       /\ trueLastAnalog' = IF r.fresh THEN now ELSE trueLastAnalog
       /\ call' = Call("getJoystickValue", sw, {}, raw, r.ret, r.fresh)
  /\ UNCHANGED <<begun, now, ticks, timeLastDigital, timeBetweenReads, deadband,
                 offsetY, pinTable, trueLastDigital>>

GetJoystickValue(sw, raw) ==
  /\ begun
  /\ LET r == getJoystickValue(sw, raw) IN
       /\ timeLastAnalog' = r.time
       /\ valueX' = r.x
       /\ valueY' = r.y
       /\ trueLastAnalog' = IF r.fresh THEN now ELSE trueLastAnalog
       /\ call' = Call("getJoystickValue", sw, {}, raw, r.ret, r.fresh)
  /\ UNCHANGED <<begun, now, ticks, timeLastDigital, timeBetweenReads, deadband,
                 offsetX, offsetY, pinTable, trueLastDigital>>

\* getJoystickDirection() giving the direction of the cached value inside the window.
getJoystickDirectionCached(sw, raw) ==
  LET r == getJoystickValue(sw, raw) IN
  [r EXCEPT !.ret = IF r.ret = 0 THEN 0 ELSE IF r.ret < 0 THEN -1 ELSE 1]

\* The body of getJoystickDirection(sw).
getJoystickDirection(sw, raw) ==
  IF GateClosed(timeLastAnalog)
  THEN [ret |-> 0, time |-> timeLastAnalog, x |-> valueX, y |-> valueY, fresh |-> FALSE]
  ELSE LET r == getJoystickValue(sw, raw) IN
       [r EXCEPT !.ret = IF r.ret = 0 THEN 0 ELSE IF r.ret < 0 THEN -1 ELSE 1]

GetJoystickDirection(sw, raw) ==
  /\ begun
  /\ LET r == getJoystickDirection(sw, raw) IN
       /\ timeLastAnalog' = r.time
       /\ valueX' = r.x
       /\ valueY' = r.y
       /\ trueLastAnalog' = IF r.fresh THEN now ELSE trueLastAnalog
       /\ call' = Call("getJoystickDirection", sw, {}, raw, r.ret, r.fresh)
  /\ UNCHANGED <<begun, now, ticks, timeLastDigital, timeBetweenReads, deadband,
                 offsetX, offsetY, pinTable, trueLastDigital>>

(***************************************************************************)
(* The inputs the calls are given.  An ADC sample is given by its distance *)
(* from the axis' offset and has to lie in the range of the ADC.           *)
(***************************************************************************)
Deltas == {<<0, 1>>, <<Wrap16 - 1, Wrap16 - 1>>}
Delays == {0, 1, 2}

AllPinInputs == SUBSET Pins
PinInputs == {{}, {PIN_B}, {PIN_A, PIN_K}}

OffsetInputs == {<<0, AdcMax>>, <<512, 512>>, <<AdcMax, 0>>}
AllSteps == {-AdcMax, -5, 0, 3, 10, AdcMax}
Steps == {-5, 3}

\* The sample the ADC gives for the axis sw, k away from the offset of the axis.
Sample(sw, k) == (IF sw = SW_X THEN offsetX ELSE IF sw = SW_Y THEN offsetY ELSE 0) + k

\* The sample is one the ADC can give; a selector that is no axis reads nothing.
Readable(sw, k) ==
  IF sw \in {SW_X, SW_Y} THEN Sample(sw, k) \in 0..AdcMax ELSE k = 0

Clock == \E d \in Deltas : Tick(d)

Setup == \E o \in OffsetInputs : Begin(o[1], o[2])

Configure == \E d \in Delays : SetReadDelay(d)

\* The whole library, on few inputs.
Next ==
  \/ Clock
  \/ Setup
  \/ Configure
  \/ \E low \in PinInputs : GetSwitch(low)
  \/ \E low \in PinInputs : AnyKey(low)
  \/ \E sw \in {SW_NONE, SW_X, SW_Y}, k \in Steps \cup {0} :
        Readable(sw, k) /\ GetJoystickValue(sw, Sample(sw, k))
  \/ \E sw \in {SW_NONE, SW_X, SW_Y}, k \in Steps \cup {0} :
        Readable(sw, k) /\ GetJoystickDirection(sw, Sample(sw, k))

Spec == Init /\ [][Next]_vars

\* The digital side alone, on every combination of pin levels.
NextDigital ==
  \/ Clock
  \/ Begin(AdcMax \div 2, AdcMax \div 2)
  \/ Configure
  \/ \E low \in AllPinInputs : GetSwitch(low)
  \/ \E low \in PinInputs : AnyKey(low)

SpecDigital == Init /\ [][NextDigital]_vars

\* No pin, one pin or two pins LOW.
KeyInputs == {low \in AllPinInputs : Cardinality(low) <= 2}

\* The digital side seen through anyKey(), with each pin and each pair of pins LOW.
NextKeys ==
  \/ Clock
  \/ Begin(AdcMax \div 2, AdcMax \div 2)
  \/ Configure
  \/ \E low \in KeyInputs : AnyKey(low)
  \/ \E low \in PinInputs : GetSwitch(low)

SpecKeys == Init /\ [][NextKeys]_vars

(***************************************************************************)
(* A caller whose loop() reads the X axis and then the Y axis in every     *)
(* pass, without the clock moving inside a pass, and with an interval that *)
(* is not 0.  The record of the last call tells where the caller is: after *)
(* a getJoystickValue(SW_X) the read of Y is still to come.                *)
(***************************************************************************)
LoopDelays == Delays \ {0}

InPass == call.op = "getJoystickValue" /\ call.sw = SW_X

LoopClock == ~InPass /\ Clock

LoopConfigure == ~InPass /\ \E d \in LoopDelays : SetReadDelay(d)

LoopReadX == ~InPass /\ \E k \in AllSteps :
                Readable(SW_X, k) /\ GetJoystickValue(SW_X, Sample(SW_X, k))

LoopReadY == InPass /\ \E k \in AllSteps :
                Readable(SW_Y, k) /\ GetJoystickValue(SW_Y, Sample(SW_Y, k))

NextLoop ==
  \/ LoopClock
  \/ Setup
  \/ LoopConfigure
  \/ LoopReadX
  \/ LoopReadY

SpecLoop == Init /\ [][NextLoop]_vars

(***************************************************************************)
(* A caller that goes on calling getSwitch() for ever while switch K is    *)
(* held down (switch A is down too at times), on a clock that goes on for  *)
(* ever.  Here `now` is the 32 bit counter itself, wrapping to 0, and      *)
(* `ticks` counts the advances of the clock since the caller's last        *)
(* getSwitch(), up to MaxTicks.  The clock is looked at after 1 ms, a few  *)
(* times, or after LongGap ms, a quarter of the counter's range, so that   *)
(* the counter comes back to a value it had before.                        *)
(***************************************************************************)
LongGap == <<Wrap16 \div 4, 0>>

LiveDeltas == {<<0, 1>>, LongGap}

HeldInputs == {{PIN_K}, {PIN_A, PIN_K}}

LiveTick(d) ==
  /\ d = <<0, 1>> => now[3] < MaxTicks
  /\ now' = <<0, Advance(now, d)[2], Advance(now, d)[3]>>
  /\ ticks' = IF ticks < MaxTicks THEN ticks + 1 ELSE ticks
  /\ UNCHANGED <<begun, sampler, trueLastDigital, trueLastAnalog, call>>

LiveClock == \E d \in LiveDeltas : LiveTick(d)

LivePoll(low) ==
  /\ begun
  /\ LET r == getSwitch(low) IN
       /\ timeLastDigital' = r.time
       /\ trueLastDigital' = IF r.fresh THEN now ELSE trueLastDigital
       /\ call' = Call("getSwitch", SW_NONE, low, 0, r.ret, r.fresh)
  /\ ticks' = 0
  /\ UNCHANGED <<begun, now, timeLastAnalog, timeBetweenReads, deadband,
                 offsetX, offsetY, valueX, valueY, pinTable, trueLastAnalog>>

LivePolls == \E low \in HeldInputs : LivePoll(low)

NextLive ==
  \/ LiveClock
  \/ Begin(AdcMax \div 2, AdcMax \div 2)
  \/ Configure
  \/ LivePolls

\* The clock keeps advancing and the caller keeps calling getSwitch().
SpecLive ==
  Init /\ [][NextLive]_vars /\ WF_vars(LiveClock) /\ WF_vars(LivePolls)

\* The analog side alone, on every selector and on samples around and far from the offset.
NextAnalog ==
  \/ Clock
  \/ Setup
  \/ Configure
  \/ \E sw \in switch_t, k \in AllSteps :
        Readable(sw, k) /\ GetJoystickValue(sw, Sample(sw, k))
  \/ \E sw \in {SW_NONE, SW_X, SW_Y}, k \in AllSteps :
        Readable(sw, k) /\ GetJoystickDirection(sw, Sample(sw, k))

SpecAnalog == Init /\ [][NextAnalog]_vars

(***************************************************************************)
(* Vocabulary of the properties.                                           *)
(***************************************************************************)
\* The step is a call of the method op (a clock advance changes `now`).
Called(op) == now' = now /\ call'.op = op

\* The unsigned 32 bit difference millis() - last is below the configured interval.
WithinInterval(last) == Less32(Sub32(millis, last), timeBetweenReads)

\* The difference a - b of two unwrapped times, a not before b.
TrueDiff(a, b) ==
  LET lo == a[3] - b[3]
      hi == a[2] - b[2] - (IF lo < 0 THEN 1 ELSE 0)
  IN  <<a[1] - b[1] - (IF hi < 0 THEN 1 ELSE 0), hi % Wrap16, lo % Wrap16>>

\* The unwrapped duration t is below the 16 bit interval d.
TrueBelow(t, d) == t[1] = 0 /\ t[2] = 0 /\ t[3] < d

\* The order in which the switches are to be reported.
SwitchOrder ==
  << <<PIN_A, SW_A>>, <<PIN_B, SW_B>>, <<PIN_C, SW_C>>, <<PIN_D, SW_D>>,
     <<PIN_E, SW_E>>, <<PIN_F, SW_F>>, <<PIN_K, SW_K>> >>

\* The switch of the first pin of SwitchOrder in `low`, SW_NONE when there is none.
FirstActive(low) ==
  IF \A i \in 1..Len(SwitchOrder) : SwitchOrder[i][1] \notin low THEN SW_NONE
  ELSE LET i == CHOOSE k \in 1..Len(SwitchOrder) :
                  /\ SwitchOrder[k][1] \in low
                  /\ \A j \in 1..(k - 1) : SwitchOrder[j][1] \notin low
       IN  SwitchOrder[i][2]

(***************************************************************************)
(* C1: a getSwitch() call made while the unsigned elapsed time since the   *)
(* last digital timestamp is below the interval returns SW_NONE whatever   *)
(* the pins read, and changes no field of the sampler (the digital         *)
(* timestamp included).                                                    *)
(***************************************************************************)
C1_GatedSwitchIsNone ==
  [][(Called("getSwitch") /\ WithinInterval(timeLastDigital))
       => (call'.ret = SW_NONE /\ UNCHANGED sampler)]_vars

\* A getSwitch() call was gated at a later clock value than the timestamp, with two pins LOW.
C1_Witness ==
  /\ call.op = "getSwitch" /\ call.at = now
  /\ WithinInterval(timeLastDigital)
  /\ timeLastDigital # millis
  /\ Cardinality(call.pins) = 2
  /\ call.ret = SW_NONE

(***************************************************************************)
(* C2: a getSwitch() call made with the interval elapsed returns, for      *)
(* every combination of pin levels, the switch of the first pin reading    *)
(* LOW in the order A, B, C, D, E, F, K, and SW_NONE when no pin is LOW.   *)
(***************************************************************************)
C2_FirstLowInOrder ==
  [][(Called("getSwitch") /\ ~WithinInterval(timeLastDigital))
       => call'.ret = FirstActive(call'.pins)]_vars

\* A scan saw three pins LOW and reported the earliest of them, which is not the first of the table.
C2_Witness ==
  /\ call.op = "getSwitch" /\ call.fresh
  /\ call.pins = {PIN_C, PIN_E, PIN_K}
  /\ call.ret = SW_C

(***************************************************************************)
(* C3, as stated: of two consecutive getSwitch() calls less than the       *)
(* interval apart, the second returns SW_NONE whatever the pins read,      *)
(* whether or not the first call was gated.                                *)
(***************************************************************************)
C3_SecondOfAnyTwoIsNone ==
  [][(/\ call.op = "getSwitch"
      /\ Called("getSwitch")
      /\ TrueBelow(TrueDiff(now, call.at), timeBetweenReads))
       => call'.ret = SW_NONE]_vars

(***************************************************************************)
(* C3, amended: of two consecutive getSwitch() calls less than the         *)
(* interval apart, the second returns SW_NONE whatever the pins read when  *)
(* the first call passed the gate (and so set the digital timestamp).      *)
(***************************************************************************)
C3_SecondAfterSampleIsNone ==
  [][(/\ call.op = "getSwitch" /\ call.fresh
      /\ Called("getSwitch")
      /\ TrueBelow(TrueDiff(now, call.at), timeBetweenReads))
       => call'.ret = SW_NONE]_vars

\* A getSwitch() call with a pin LOW returned SW_NONE one millisecond after a call
\* that had set the timestamp.
C3_Witness ==
  /\ call.op = "getSwitch" /\ call.at = now /\ ~call.fresh
  /\ call.pins # {}
  /\ call.ret = SW_NONE
  /\ trueLastDigital # <<0, 0, 0>>
  /\ TrueDiff(now, trueLastDigital) = <<0, 0, 1>>
  /\ TrueBelow(TrueDiff(now, trueLastDigital), timeBetweenReads)

(***************************************************************************)
(* The analog side.                                                        *)
(***************************************************************************)
Axes == {SW_X, SW_Y}

AxisOffset(sw) == IF sw = SW_X THEN offsetX ELSE offsetY

AxisValue(sw) == IF sw = SW_X THEN valueX ELSE valueY

\* raw - offset, and 0 for it when its absolute value is below the deadband.
Adjusted(sw, raw) ==
  LET v == raw - AxisOffset(sw)
  IN  IF v >= deadband \/ -v >= deadband THEN v ELSE 0

Sign(v) == IF v > 0 THEN 1 ELSE IF v < 0 THEN -1 ELSE 0

(***************************************************************************)
(* C4: a getJoystickValue() call for X or Y made with the analog interval  *)
(* elapsed returns raw - offset of the axis, or 0 when the absolute value  *)
(* of that is below the deadband (not when it equals the deadband), leaves *)
(* that result as the cached value of the axis and sets the analog         *)
(* timestamp to the clock value of the call.                               *)
(***************************************************************************)
C4_FreshValueIsAdjusted ==
  [][(/\ Called("getJoystickValue") /\ call'.sw \in Axes
      /\ ~WithinInterval(timeLastAnalog))
       => /\ call'.ret = Adjusted(call'.sw, call'.raw)
          /\ (IF call'.sw = SW_X THEN valueX' ELSE valueY') = Adjusted(call'.sw, call'.raw)
          /\ timeLastAnalog' = millis]_vars

\* A sample at exactly the deadband below the offset came back unclamped.
C4_Witness ==
  /\ call.op = "getJoystickValue" /\ call.sw = SW_X /\ call.fresh /\ call.at = now
  /\ deadband = DEFAULT_DB
  /\ call.raw = offsetX - deadband
  /\ call.ret = -deadband
  /\ valueX = -deadband
  /\ timeLastAnalog = millis

(***************************************************************************)
(* C5: a getJoystickValue() call for X or Y made inside the analog window  *)
(* returns the cached value of that axis and changes no field of the       *)
(* sampler, whatever the sample at the pin is.                             *)
(***************************************************************************)
C5_GatedValueIsCached ==
  [][(/\ Called("getJoystickValue") /\ call'.sw \in Axes
      /\ WithinInterval(timeLastAnalog))
       => /\ call'.ret = AxisValue(call'.sw)
          /\ UNCHANGED sampler]_vars

\* A second query of Y inside the window returned the cached Y, while the pin gave
\* another sample and X held another value.
C5_Witness ==
  /\ call.op = "getJoystickValue" /\ call.sw = SW_Y /\ ~call.fresh /\ call.at = now
  /\ call.nth = 2
  /\ WithinInterval(timeLastAnalog)
  /\ valueY # 0 /\ valueX # valueY
  /\ call.ret = valueY
  /\ Adjusted(SW_Y, call.raw) # valueY

(***************************************************************************)
(* C6: getJoystickValue() with a selector other than SW_X and SW_Y returns *)
(* 0 in every state, inside the analog window as well as outside it.       *)
(***************************************************************************)
C6_OtherSelectorIsZero ==
  (call.op = "getJoystickValue" /\ call.sw \notin Axes) => call.ret = 0

(***************************************************************************)
(* C7: a getJoystickDirection() call for X or Y made with the analog       *)
(* interval elapsed samples as getJoystickValue() does (cached value of    *)
(* the axis, analog timestamp) and returns the sign of the adjusted value; *)
(* made inside the window it returns 0 and changes no field, also when the *)
(* cached value of the axis is not 0.                                      *)
(***************************************************************************)
C7_DirectionIsSignOrZero ==
  [][(Called("getJoystickDirection") /\ call'.sw \in Axes)
       => IF WithinInterval(timeLastAnalog)
          THEN call'.ret = 0 /\ UNCHANGED sampler
          ELSE /\ call'.ret = Sign(Adjusted(call'.sw, call'.raw))
               /\ (IF call'.sw = SW_X THEN valueX' ELSE valueY')
                     = Adjusted(call'.sw, call'.raw)
               /\ timeLastAnalog' = millis]_vars

\* A direction query of X inside the window returned 0 while the cached X was not 0.
C7_Witness ==
  /\ call.op = "getJoystickDirection" /\ call.sw = SW_X /\ ~call.fresh /\ call.at = now
  /\ WithinInterval(timeLastAnalog)
  /\ valueX # 0
  /\ call.ret = 0

(***************************************************************************)
(* C8: for the zero initialised instance, getJoystickValue(SW_X) made as   *)
(* the first query after begin(), at any clock value, with the X sample    *)
(* equal to the one begin() took, returns 0.                               *)
(***************************************************************************)
C8_FirstValueIsZero ==
  [][(/\ begun /\ call.nth = 0
      /\ Called("getJoystickValue") /\ call'.sw = SW_X
      /\ call'.raw = offsetX)
       => call'.ret = 0]_vars

\* The first query was getJoystickValue(SW_X), past the first interval, and it
\* sampled the offset.
C8_Witness ==
  /\ call.op = "getJoystickValue" /\ call.sw = SW_X /\ call.nth = 1
  /\ call.fresh /\ call.at = now
  /\ offsetX > 0 /\ call.raw = offsetX
  /\ call.ret = 0

(***************************************************************************)
(* C9: while the interval is 0 (after setReadDelay(0)) no call is gated:   *)
(* every getSwitch() scans the pins and every getJoystickValue() for X or  *)
(* Y samples, also a call made at the clock value of the call before it.   *)
(***************************************************************************)
C9_ZeroDelayNeverGates ==
  [][timeBetweenReads = 0
       => /\ Called("getSwitch")
               => /\ call'.ret = FirstActive(call'.pins)
                  /\ timeLastDigital' = millis
          /\ (Called("getJoystickValue") /\ call'.sw \in Axes)
               => /\ call'.ret = Adjusted(call'.sw, call'.raw)
                  /\ (IF call'.sw = SW_X THEN valueX' ELSE valueY')
                        = Adjusted(call'.sw, call'.raw)
                  /\ timeLastAnalog' = millis]_vars

\* A second query, made at the clock value 0 of the first one and of the timestamp,
\* scanned the pins and reported a switch.
C9_Witness ==
  /\ timeBetweenReads = 0
  /\ call.op = "getSwitch" /\ call.nth = 2 /\ call.at = now
  /\ ticks = 0
  /\ call.pins # {}
  /\ call.ret = FirstActive(call.pins)
  /\ call.ret # SW_NONE

(***************************************************************************)
(* C10: the gates decide by the difference of clock and timestamp modulo   *)
(* 2^32: a digital or an analog query whose true elapsed time since the    *)
(* timestamp was set is below 2^32 is gated exactly when that time is      *)
(* below the interval, also when the clock has wrapped from 2^32 - 1 to 0  *)
(* in between.                                                             *)
(***************************************************************************)
C10_GateIsWraparoundSafe ==
  [][/\ ((Called("getSwitch") \/ Called("anyKey"))
           /\ TrueDiff(now, trueLastDigital)[1] = 0)
         => IF TrueBelow(TrueDiff(now, trueLastDigital), timeBetweenReads)
            THEN ~call'.fresh /\ UNCHANGED sampler
            ELSE call'.fresh /\ timeLastDigital' = millis
     /\ ((Called("getJoystickValue") \/ Called("getJoystickDirection"))
           /\ TrueDiff(now, trueLastAnalog)[1] = 0)
         => IF TrueBelow(TrueDiff(now, trueLastAnalog), timeBetweenReads)
            THEN ~call'.fresh /\ UNCHANGED sampler
            ELSE call'.fresh /\ timeLastAnalog' = millis]_vars

\* The digital timestamp was set at 2^32 - 1, the clock has wrapped to 0, and a
\* getSwitch() call there, one millisecond later, was gated with a pin LOW.
C10_Witness ==
  /\ call.op = "getSwitch" /\ call.at = now /\ ~call.fresh
  /\ call.pins # {} /\ call.ret = SW_NONE
  /\ trueLastDigital = <<0, Wrap16 - 1, Wrap16 - 1>>
  /\ timeLastDigital = <<Wrap16 - 1, Wrap16 - 1>>
  /\ now = <<1, 0, 0>>
  /\ millis = <<0, 0>>

(***************************************************************************)
(* C11: once begin() has run, no call of setReadDelay(), anyKey(),         *)
(* getSwitch(), getJoystickDirection() or getJoystickValue() changes       *)
(* _offsetX, _offsetY, the deadband or the pin to switch table: they are   *)
(* the same in every state that follows.                                   *)
(***************************************************************************)
C11_CalibrationIsFixed ==
  [][begun => UNCHANGED <<offsetX, offsetY, deadband, pinTable>>]_vars

\* Two queries and a changed interval later the calibration is still that of
\* begin(): a fresh, non-zero axis value has just been returned.
C11_Witness ==
  /\ begun
  /\ call.nth = 2
  /\ call.op = "getJoystickValue"
  /\ call.fresh
  /\ call.ret # 0
  /\ timeBetweenReads # DEFAULT_DELAY
  /\ offsetX = AdcMax
  /\ offsetY = 0
  /\ deadband = DEFAULT_DB
  /\ pinTable = pinDigital

(***************************************************************************)
(* C12: getSwitch() and anyKey() never change the analog timestamp or the  *)
(* cached axis values; getJoystickValue() and getJoystickDirection() never *)
(* change the digital timestamp; setReadDelay(d) changes the interval and  *)
(* nothing else.  A digital query samples exactly when the interval has    *)
(* elapsed since the digital timestamp and an analog query exactly when it *)
(* has elapsed since the analog timestamp, both against the one interval,  *)
(* so a sample of one kind never gates a query of the other kind.          *)
(***************************************************************************)
C12_GatesAreIndependent ==
  [][/\ (Called("getSwitch") \/ Called("anyKey"))
          => /\ UNCHANGED <<timeLastAnalog, valueX, valueY>>
             /\ call'.fresh = ~WithinInterval(timeLastDigital)
     /\ (Called("getJoystickValue") \/ Called("getJoystickDirection"))
          => /\ UNCHANGED timeLastDigital
             /\ call'.fresh = ~WithinInterval(timeLastAnalog)
     /\ Called("setReadDelay")
          => /\ timeBetweenReads' = call'.raw
             /\ UNCHANGED <<timeLastDigital, timeLastAnalog, deadband, offsetX,
                            offsetY, valueX, valueY, pinTable>>]_vars

\* With a non-zero interval a digital sample and an analog sample were both
\* taken at this one clock value: neither gated the other.
C12_Witness ==
  /\ call.op = "getJoystickValue" /\ call.at = now
  /\ call.sw = SW_X
  /\ call.fresh
  /\ call.ret # 0
  /\ timeBetweenReads > 0
  /\ ticks > 0
  /\ trueLastDigital = now
  /\ timeLastDigital = millis
  /\ timeLastAnalog = millis

(***************************************************************************)
(* C13: anyKey() returns true exactly when getSwitch(), called in the same *)
(* state at the same clock value with the same pin levels, would return a  *)
(* switch other than SW_NONE, and it leaves the sampler as that call would *)
(* leave it: the digital timestamp set to the clock when the call is not   *)
(* gated, and nothing changed when it is.                                  *)
(***************************************************************************)
C13_AnyKeyIsGetSwitch ==
  [][Called("anyKey")
       => LET r == getSwitch(call'.pins) IN
          /\ call'.ret = (r.ret # SW_NONE)
          /\ call'.fresh = r.fresh
          /\ timeLastDigital' = r.time
          /\ timeLastDigital' = IF WithinInterval(timeLastDigital)
                                THEN timeLastDigital ELSE millis
          /\ UNCHANGED <<timeLastAnalog, timeBetweenReads, deadband, offsetX,
                         offsetY, valueX, valueY, pinTable>>]_vars

\* anyKey() sampled two pins that are LOW, said true and moved the timestamp.
C13_Witness ==
  /\ call.op = "anyKey" /\ call.at = now
  /\ call.pins = {PIN_D, PIN_F}
  /\ call.ret = TRUE
  /\ call.fresh
  /\ ticks > 0
  /\ timeLastDigital = millis
  /\ timeLastDigital # <<0, 0>>

(***************************************************************************)
(* C14: with an interval d > 0 and a clock that never goes back, once a    *)
(* getSwitch() or anyKey() call has passed the gate at time t, every       *)
(* getSwitch() or anyKey() call at a time t' with t' - t < d returns       *)
(* SW_NONE or false, whatever the pins read.  So a call that reports a     *)
(* switch is at least d after the call that last passed the gate (and so   *)
(* after the last call that reported one), and a getSwitch() made less     *)
(* than d after an anyKey() that returned true returns SW_NONE.            *)
(***************************************************************************)
DigitalQuery == Called("getSwitch") \/ Called("anyKey")

Reports(c) == IF c.op = "anyKey" THEN c.ret = TRUE ELSE c.ret # SW_NONE

C14_OneReportPerInterval ==
  [][/\ (DigitalQuery /\ TrueBelow(TrueDiff(now, trueLastDigital), timeBetweenReads))
          => /\ ~Reports(call')
             /\ ~call'.fresh
             /\ UNCHANGED sampler
     /\ (DigitalQuery /\ Reports(call'))
          => ~TrueBelow(TrueDiff(now, trueLastDigital), timeBetweenReads)
     /\ (/\ call.op = "anyKey" /\ call.ret = TRUE
         /\ Called("getSwitch")
         /\ TrueBelow(TrueDiff(now, call.at), timeBetweenReads))
          => call'.ret = SW_NONE]_vars

\* A call passed the gate at this clock value, and a getSwitch() made after it
\* at the same clock value found two pins LOW and returned SW_NONE.
C14_Witness ==
  /\ call.op = "getSwitch" /\ call.at = now
  /\ ~call.fresh
  /\ call.pins = {PIN_A, PIN_K}
  /\ call.ret = SW_NONE
  /\ timeBetweenReads > 0
  /\ ticks > 0
  /\ trueLastDigital = now
  /\ timeLastDigital = millis

(***************************************************************************)
(* C15: with raw samples and offsets in 0..1023 and the default deadband,  *)
(* in every state after begin() each cached axis value, and every value    *)
(* getJoystickValue() returned for SW_X or SW_Y, lies in -1023..1023 and   *)
(* is either 0 or at least the deadband in absolute value; a freshly       *)
(* sampled value that is not 0 is raw - offset itself, so the 16 bit       *)
(* subtraction never wraps to the wrong sign.                              *)
(***************************************************************************)
InAxisRange(v) ==
  /\ v \in (-AdcMax)..AdcMax
  /\ (v = 0 \/ v >= deadband \/ -v >= deadband)

C15_AxisValuesInRange ==
  begun =>
    /\ deadband = DEFAULT_DB
    /\ InAxisRange(valueX)
    /\ InAxisRange(valueY)
    /\ (call.op = "getJoystickValue" /\ call.sw \in Axes)
         => /\ InAxisRange(call.ret)
            /\ (call.fresh /\ call.ret # 0)
                 => call.ret = call.raw - AxisOffset(call.sw)

\* Both axes are cached at the two ends of the range, the last one just sampled.
C15_Witness ==
  /\ begun
  /\ valueX = AdcMax
  /\ valueY = -AdcMax
  /\ call.op = "getJoystickValue" /\ call.fresh
  /\ call.sw = SW_Y
  /\ call.raw = 0
  /\ call.ret = -AdcMax

(***************************************************************************)
(* C16: the two axes share the one analog timestamp.  A fresh sample of an *)
(* axis changes the cached value of that axis and the timestamp and        *)
(* nothing else, and with an interval above 0 it leaves the gate closed    *)
(* for the other axis as well.  Hence a caller that in every pass of its   *)
(* loop calls getJoystickValue(SW_X) and then getJoystickValue(SW_Y) at    *)
(* the same clock value never gets a fresh Y sample: every Y query is      *)
(* gated and returns the value Y was constructed with, 0, whatever the     *)
(* Y pin reads.                                                            *)
(***************************************************************************)
C16_SecondAxisStarves ==
  /\ [][(Called("getJoystickValue") /\ call'.sw \in Axes /\ call'.fresh)
          => /\ timeLastAnalog' = millis
             /\ (call'.sw = SW_X => UNCHANGED valueY)
             /\ (call'.sw = SW_Y => UNCHANGED valueX)
             /\ UNCHANGED <<timeLastDigital, timeBetweenReads, deadband,
                            offsetX, offsetY, pinTable>>
             /\ Less32(Sub32(millis, timeLastAnalog'), timeBetweenReads')]_vars
  /\ [](/\ valueY = 0
        /\ (call.op = "getJoystickValue" /\ call.sw = SW_Y)
             => (~call.fresh /\ call.ret = 0))

\* The X axis has been sampled and sits at a non-zero value; the Y query of the
\* same pass, with the Y pin at the far end of its range, was gated and gave 0.
C16_Witness ==
  /\ call.op = "getJoystickValue" /\ call.at = now
  /\ call.sw = SW_Y
  /\ ~call.fresh
  /\ call.raw = AdcMax /\ offsetY = 0
  /\ call.ret = 0
  /\ valueX # 0
  /\ valueY = 0
  /\ ticks > 0
  /\ trueLastAnalog = now

(***************************************************************************)
(* C17: getJoystickValue(sw) with a selector that is not an axis, called   *)
(* when the interval has elapsed since the analog timestamp, returns 0 and *)
(* leaves both cached values unchanged, but still sets the analog          *)
(* timestamp to the clock.  So a getJoystickValue(SW_X) that follows it    *)
(* within the interval returns the cached X value without sampling, and a  *)
(* getJoystickDirection(SW_X) that follows it within the interval          *)
(* returns 0.                                                              *)
(***************************************************************************)
C17_OtherSelectorSpendsTheWindow ==
  [][/\ (/\ Called("getJoystickValue") /\ call'.sw \notin Axes
         /\ ~WithinInterval(timeLastAnalog))
          => /\ call'.ret = 0
             /\ call'.fresh
             /\ timeLastAnalog' = millis
             /\ UNCHANGED <<valueX, valueY, timeLastDigital, timeBetweenReads,
                            deadband, offsetX, offsetY, pinTable>>
     /\ (/\ call.op = "getJoystickValue" /\ call.sw \notin Axes /\ call.fresh
         /\ TrueBelow(TrueDiff(now, call.at), timeBetweenReads)
         /\ call'.sw = SW_X)
          => /\ Called("getJoystickValue")
                  => (call'.ret = valueX /\ ~call'.fresh /\ UNCHANGED sampler)
             /\ Called("getJoystickDirection")
                  => (call'.ret = 0 /\ ~call'.fresh /\ UNCHANGED sampler)]_vars

\* With X cached at a non-zero value and the interval elapsed, a getJoystickValue(SW_K)
\* returned 0, left the cache and took the timestamp: the gate is closed again.
C17_Witness ==
  /\ call.op = "getJoystickValue" /\ call.at = now
  /\ call.sw = SW_K
  /\ call.fresh
  /\ call.ret = 0
  /\ valueX # 0
  /\ ticks > 0
  /\ timeLastAnalog = millis
  /\ trueLastAnalog = now
  /\ WithinInterval(timeLastAnalog)

(***************************************************************************)
(* C18, as stated: if the pin of a switch stays LOW, the clock keeps       *)
(* advancing and the caller keeps calling getSwitch(), then some           *)
(* getSwitch() call eventually returns a switch other than SW_NONE.        *)
(***************************************************************************)
HeldIsReported ==
  call.op = "getSwitch" /\ call.fresh /\ call.ret \in {SW_A, SW_K}

PollsInTime == ticks <= 1

====
